---- MODULE Spec2Model ----
(***************************************************************************)
(* A model of the automated EDA pipeline: loader.py, profiling.py,         *)
(* analytics.py, gemini.py, plots.py and the main flow of app.py.          *)
(*                                                                         *)
(* Each part of the pipeline has its own specification over the shared     *)
(* variables; the variables a specification does not use stay at the idle  *)
(* values of the Idle predicates.                                          *)
(*   SpecPlots   generate_plots (plots.py)                                 *)
(*   SpecInfer   profile_dataframe, profile_column, infer_column_type      *)
(*   SpecOutlier numeric_column_stats (analytics.py)                       *)
(*   SpecCorr    correlation_analysis (analytics.py)                       *)
(*   SpecPrompt  profile_dataframe, run_analytics, build_prompt            *)
(*   SpecStats   profile_dataframe, run_analytics on numeric columns       *)
(*   SpecApp     one analysis pass of app.py, with load_dataset and        *)
(*               call_gemini                                               *)
(***************************************************************************)
EXTENDS Integers, Sequences, FiniteSets, TLC

VARIABLES
    plot_plan,      \* generate_plots: the plot_plan argument
    plot_i,         \* generate_plots: number of requests the for loop has taken
    figures,        \* generate_plots: the local list `figures`
    render_log,     \* history: the renderer calls made, <<request index, raised>>
    plots_pc,       \* generate_plots: "loop", "returned" or "raised"
    df,             \* the table: column name -> [dtype, cells]
    profiling,      \* profile_dataframe(df)["columns"], or NULL before the call
    analytics,      \* run_analytics(df, column_profiles), or NULL before the call
    prompt_input,   \* build_prompt: <<column_profiles_clean, analytics_clean>>
    prof_pc,        \* "loaded", "profiled", "analysed", "prompt_built", "prompt_raised"
    out_df,         \* numeric_column_stats: the table, one numeric column "x"
    out_stats,      \* numeric_column_stats(out_df, <<"x">>) of the current table
    out_prev,       \* history: <<out_stats before the last change of the column>>
    corr_matrix,    \* df[numeric_cols].corr(): unordered column pair -> value
    numeric_cols,   \* correlation_analysis: the numeric_cols argument
    corr_result,    \* correlation_analysis(df, numeric_cols)
    corr_first,     \* history: the result for the order the run started with
    uploaded_file,  \* app.py: the upload: extension, readability, shape of its table
    environment,    \* app.py: GEMINI_API_KEY set or not, and what the generator answers
    gemini_output,  \* app.py: gemini_output
    calls,          \* history: the pipeline functions called, in order
    plans_given,    \* history: the plot_plan arguments generate_plots was called with
    shown,          \* the sections the page shows
    errors,         \* the st.error boxes the page shows, <<handler, message>>
    app_pc          \* app.py: position in the main flow

plotsVars == <<plot_plan, plot_i, figures, render_log, plots_pc>>
profVars == <<df, profiling, analytics, prompt_input, prof_pc>>
outVars == <<out_df, out_stats, out_prev>>
corrVars == <<corr_matrix, numeric_cols, corr_result, corr_first>>
appVars == <<uploaded_file, environment, gemini_output, calls, plans_given,
             shown, errors, app_pc>>
vars == <<plotsVars, profVars, outVars, corrVars, appVars>>

(***************************************************************************)
(* Bounds                                                                  *)
(***************************************************************************)
MaxPlan == 2        \* longest plot plan
MaxRows == 3        \* most rows of a profiled table
MaxLen == 5         \* most cells of the column given to numeric_column_stats
MaxCorr == 1        \* correlation values are the levels 0..MaxCorr, or NaN
MaxFileRows == 5    \* most rows of an uploaded table
MaxFileCols == 2    \* most columns of an uploaded table
MaxVal == 3         \* largest value in that column (values are 0..MaxVal)

NULL == "NULL"

IdlePlots ==
    /\ plot_plan = <<>>
    /\ plot_i = 0
    /\ figures = <<>>
    /\ render_log = <<>>
    /\ plots_pc = "idle"

IdleProf ==
    /\ df = NULL
    /\ profiling = NULL
    /\ analytics = NULL
    /\ prompt_input = NULL
    /\ prof_pc = "idle"

IdleOut ==
    /\ out_df = NULL
    /\ out_stats = NULL
    /\ out_prev = <<>>

IdleCorr ==
    /\ corr_matrix = NULL
    /\ numeric_cols = <<>>
    /\ corr_result = NULL
    /\ corr_first = NULL

IdleApp ==
    /\ uploaded_file = NULL
    /\ environment = NULL
    /\ gemini_output = NULL
    /\ calls = <<>>
    /\ plans_given = <<>>
    /\ shown = {}
    /\ errors = <<>>
    /\ app_pc = "idle"

\* What each part leaves alone.
notPlotsVars == <<profVars, outVars, corrVars, appVars>>
NotPlotsIdle == IdleProf /\ IdleOut /\ IdleCorr /\ IdleApp
notProfVars == <<plotsVars, outVars, corrVars, appVars>>
NotProfIdle == IdlePlots /\ IdleOut /\ IdleCorr /\ IdleApp
notOutVars == <<plotsVars, profVars, corrVars, appVars>>
NotOutIdle == IdlePlots /\ IdleProf /\ IdleCorr /\ IdleApp
notCorrVars == <<plotsVars, profVars, outVars, appVars>>
NotCorrIdle == IdlePlots /\ IdleProf /\ IdleOut /\ IdleApp
notAppVars == <<plotsVars, profVars, outVars, corrVars>>
NotAppIdle == IdlePlots /\ IdleProf /\ IdleOut /\ IdleCorr

(***************************************************************************)
(* plots.py                                                                *)
(***************************************************************************)

\* The table handed to generate_plots: df.columns, and the logical type
\* profile_dataframe gave each column (column_profiles[col]["logical_type"]).
DfColumns == {"age", "income", "city", "ts"}

ColumnProfiles ==
    [c \in DfColumns |->
        CASE c = "age"    -> "numeric"
          [] c = "income" -> "numeric"
          [] c = "city"   -> "categorical"
          [] c = "ts"     -> "datetime"]

_is_numeric(col, profiles) == profiles[col] = "numeric"
_is_categorical(col, profiles) == profiles[col] = "categorical"
_is_datetime(col, profiles) == profiles[col] = "datetime"

\* The untrusted plan items. An item that is not a mapping (shape "other") has
\* no .get, so plot.get raises inside the try block.
PlotTypes == {"hist", "box", "bar", "scatter", "line", "pie"}

ColumnLists ==
    { <<>>, <<"age">>, <<"city">>, <<"ghost">>,
      <<"age", "income">>, <<"age", "city">>, <<"ts", "age">>, <<"age", "ts">> }

PlotRequests ==
    [shape : {"dict"}, type : PlotTypes, columns : ColumnLists]
      \cup {[shape |-> "other", type |-> NULL, columns |-> <<>>]}

PlotPlans == UNION { [1..n -> PlotRequests] : n \in 0..MaxPlan }

\* plots.py:82  `not cols or any(col not in df.columns for col in cols)`
ColumnsRejected(cols) ==
    cols = <<>> \/ \E k \in 1..Len(cols) : cols[k] \notin DfColumns

\* Mutant of Dispatch: scatter tests the type of its first column only.
Dispatch_ScatterFirstOnly(plot, profiles) ==
    LET t == plot.type
        cols == plot.columns
    IN  IF t \in {"hist", "box"} /\ Len(cols) = 1
        THEN IF _is_numeric(cols[1], profiles) THEN "generate_histogram" ELSE NULL
        ELSE IF t = "bar" /\ Len(cols) = 1
        THEN IF _is_categorical(cols[1], profiles) THEN "generate_barplot" ELSE NULL
        ELSE IF t = "scatter" /\ Len(cols) = 2
        THEN IF _is_numeric(cols[1], profiles) THEN "generate_scatter" ELSE NULL
        ELSE IF t = "line" /\ Len(cols) = 2
        THEN IF _is_datetime(cols[1], profiles) /\ _is_numeric(cols[2], profiles)
             THEN "generate_line" ELSE NULL
        ELSE NULL

\* Mutant of Dispatch: line takes its columns as (numeric, datetime).
Dispatch_LineSwapped(plot, profiles) ==
    LET t == plot.type
        cols == plot.columns
    IN  IF t \in {"hist", "box"} /\ Len(cols) = 1
        THEN IF _is_numeric(cols[1], profiles) THEN "generate_histogram" ELSE NULL
        ELSE IF t = "bar" /\ Len(cols) = 1
        THEN IF _is_categorical(cols[1], profiles) THEN "generate_barplot" ELSE NULL
        ELSE IF t = "scatter" /\ Len(cols) = 2
        THEN IF _is_numeric(cols[1], profiles) /\ _is_numeric(cols[2], profiles)
             THEN "generate_scatter" ELSE NULL
        ELSE IF t = "line" /\ Len(cols) = 2
        THEN IF _is_numeric(cols[1], profiles) /\ _is_datetime(cols[2], profiles)
             THEN "generate_line" ELSE NULL
        ELSE NULL

\* plots.py:85-108  the if/elif chain: the renderer the request is dispatched
\* to, or NULL when no branch appends a figure.  The elif chain is entered on
\* the type and the length alone; the type test of the columns is nested, so a
\* failed type test falls out of the chain.
Dispatch(plot, profiles) ==
    LET t == plot.type
        cols == plot.columns
    IN  IF t = "hist" /\ Len(cols) = 1
        THEN IF _is_numeric(cols[1], profiles) THEN "generate_histogram" ELSE NULL
        ELSE IF t = "box" /\ Len(cols) = 1
        THEN IF _is_numeric(cols[1], profiles) THEN "generate_boxplot" ELSE NULL
        ELSE IF t = "bar" /\ Len(cols) = 1
        THEN IF _is_categorical(cols[1], profiles) THEN "generate_barplot" ELSE NULL
        ELSE IF t = "scatter" /\ Len(cols) = 2
        THEN IF _is_numeric(cols[1], profiles) /\ _is_numeric(cols[2], profiles)
             THEN "generate_scatter" ELSE NULL
        ELSE IF t = "line" /\ Len(cols) = 2
        THEN IF _is_datetime(cols[1], profiles) /\ _is_numeric(cols[2], profiles)
             THEN "generate_line" ELSE NULL
        ELSE NULL

\* Mutant of ExceptHandler: the exception leaves generate_plots.
ExceptHandler_Propagate == "raise"

\* plots.py:110-112  `except Exception: continue`
ExceptHandler == "continue"

\* What an exception inside the try block does to the loop.
AfterException ==
    IF ExceptHandler = "continue"
    THEN /\ plots_pc' = "loop"
         /\ plot_i' = plot_i + 1
    ELSE /\ plots_pc' = "raised"
         /\ plot_i' = plot_i

\* One iteration of `for plot in plot_plan` (plots.py:76-112).  A renderer is
\* matplotlib code over the table's data: it returns a figure or raises
\* (a histogram of a column holding inf, a bar chart of a column with no
\* non-null value), and which of the two is the environment's choice.
GeneratePlotsStep ==
    /\ plots_pc = "loop"
    /\ plot_i < Len(plot_plan)
    /\ LET i == plot_i + 1
           plot == plot_plan[i]
       IN  IF plot.shape # "dict"
           THEN \* plot.get raises AttributeError
                /\ AfterException
                /\ UNCHANGED <<figures, render_log>>
           ELSE IF ColumnsRejected(plot.columns)
           THEN /\ plot_i' = i
                /\ UNCHANGED <<figures, render_log, plots_pc>>
           ELSE IF Dispatch(plot, ColumnProfiles) = NULL
           THEN /\ plot_i' = i
                /\ UNCHANGED <<figures, render_log, plots_pc>>
           ELSE \E raises \in BOOLEAN :
                /\ render_log' = Append(render_log, <<i, raises>>)
                /\ IF raises
                   THEN /\ AfterException
                        /\ UNCHANGED figures
                   ELSE /\ figures' = Append(figures,
                               [renderer |-> Dispatch(plot, ColumnProfiles),
                                columns |-> plot.columns,
                                src |-> i])
                        /\ plot_i' = i
                        /\ UNCHANGED plots_pc
    /\ UNCHANGED plot_plan
    /\ UNCHANGED notPlotsVars

\* plots.py:114  `return figures`
GeneratePlotsReturn ==
    /\ plots_pc = "loop"
    /\ plot_i = Len(plot_plan)
    /\ plots_pc' = "returned"
    /\ UNCHANGED <<plot_plan, plot_i, figures, render_log>>
    /\ UNCHANGED notPlotsVars

InitPlots ==
    /\ plot_plan \in PlotPlans
    /\ plot_i = 0
    /\ figures = <<>>
    /\ render_log = <<>>
    /\ plots_pc = "loop"
    /\ NotPlotsIdle

NextPlots == GeneratePlotsStep \/ GeneratePlotsReturn

SpecPlots == InitPlots /\ [][NextPlots]_vars

(***************************************************************************)
(* Claims about generate_plots (SpecPlots)                                 *)
(***************************************************************************)

\* The type contract table of the plot plan validator: for each kind, the
\* logical types its columns must have, in order.
Contract ==
    [k \in {"hist", "box", "bar", "scatter", "line"} |->
        CASE k = "hist"    -> <<"numeric">>
          [] k = "box"     -> <<"numeric">>
          [] k = "bar"     -> <<"categorical">>
          [] k = "scatter" -> <<"numeric", "numeric">>
          [] k = "line"    -> <<"datetime", "numeric">>]

\* A request that meets the contract: a mapping, columns non-empty and all in
\* the table, a kind of the contract table, its arity and its types.
MeetsContract(plot) ==
    /\ plot.shape = "dict"
    /\ plot.columns # <<>>
    /\ \A k \in 1..Len(plot.columns) : plot.columns[k] \in DfColumns
    /\ plot.type \in DOMAIN Contract
    /\ Len(plot.columns) = Len(Contract[plot.type])
    /\ \A k \in 1..Len(plot.columns) :
          ColumnProfiles[plot.columns[k]] = Contract[plot.type][k]

FigureSources == { figures[k].src : k \in 1..Len(figures) }
RenderedSources == { render_log[k][1] : k \in 1..Len(render_log) }
RenderedOk == { render_log[k][1] : k \in { j \in 1..Len(render_log) : ~render_log[j][2] } }

\* C1: every figure generate_plots holds comes from a request that meets the
\* contract (non-empty columns that all exist, a kind of the table, the kind's
\* arity and logical types), and no request that fails it reaches a renderer:
\* in particular none naming a nonexistent column, and no scatter on
\* (numeric, categorical).
C1_FiguresMeetContract ==
    /\ \A k \in 1..Len(figures) :
          /\ figures[k].src \in 1..Len(plot_plan)
          /\ MeetsContract(plot_plan[figures[k].src])
          /\ figures[k].columns = plot_plan[figures[k].src].columns
    /\ \A i \in RenderedSources : MeetsContract(plot_plan[i])

\* C1 witness: a plan holding a scatter on (numeric, categorical) has been
\* processed to the end; that request reached no renderer, and the figure of
\* the plan's other request was returned.
C1_Witness ==
    /\ plots_pc = "returned"
    /\ Len(figures) = 1
    /\ \E j \in 1..Len(plot_plan) :
          /\ plot_plan[j].type = "scatter"
          /\ plot_plan[j].columns = <<"age", "city">>
          /\ j \notin RenderedSources

\* C2 as stated: once generate_plots has returned, every request that meets
\* the contract has an artifact among the figures.
C2_ValidAlwaysSurvives ==
    plots_pc = "returned" =>
        \A i \in 1..Len(plot_plan) :
            MeetsContract(plot_plan[i]) => i \in FigureSources

\* C2 amended: every request that meets the contract passes the filter and is
\* handed to its renderer, whatever else is in the plan, and it has an
\* artifact among the figures unless that renderer raised.
C2_ValidReachesRenderer ==
    plots_pc = "returned" =>
        \A i \in 1..Len(plot_plan) :
            MeetsContract(plot_plan[i]) =>
                /\ i \in RenderedSources
                /\ (i \in RenderedOk => i \in FigureSources)

\* C2 witness: a valid request placed after an invalid one got its artifact.
C2_Witness ==
    /\ plots_pc = "returned"
    /\ Len(plot_plan) = 2
    /\ ~MeetsContract(plot_plan[1])
    /\ MeetsContract(plot_plan[2])
    /\ FigureSources = {2}

\* C3: no exception of one request leaves generate_plots; when it returns,
\* every request of the plan has been taken by the loop, the figures are in
\* the order of their requests with at most one per request, each request
\* whose renderer returned has its figure, and the result is a list (empty
\* when nothing survived).
C3_BatchNeverAborts ==
    /\ plots_pc # "raised"
    /\ plots_pc = "returned" =>
          /\ plot_i = Len(plot_plan)
          /\ \A k \in 1..Len(figures) : figures[k].src \in 1..Len(plot_plan)
          /\ \A k, l \in 1..Len(figures) : k < l => figures[k].src < figures[l].src
          /\ RenderedOk = FigureSources
          /\ ((\A i \in 1..Len(plot_plan) : ~MeetsContract(plot_plan[i]))
                 => figures = <<>>)

\* C3 witness: the first request's renderer raised, and the request after it
\* was still processed and its figure returned.
C3_Witness ==
    /\ plots_pc = "returned"
    /\ Len(plot_plan) >= 2
    /\ render_log # <<>> /\ render_log[1] = <<1, TRUE>>
    /\ figures # <<>> /\ figures[1].src = 2

(***************************************************************************)
(* profiling.py                                                            *)
(***************************************************************************)

\* Python values as the code builds them: [t |-> the runtime type, v |-> the
\* value].  A dict's v is a function from its keys, a list's v a sequence,
\* and a scalar's v the value, or NULL where the model does not compute it.
Py(type, value) == [t |-> type, v |-> value]
PyDict(f) == [t |-> "dict", v |-> f]
PyList(q) == [t |-> "list", v |-> q]

\* The storage types (series.dtype) of the model's columns.  bool and int64
\* columns hold no null cell: pandas stores a column with a missing bool or
\* int as object or float64.
Dtypes ==
    {"bool", "int64", "float64", "datetime64[ns]", "object", "category",
     "timedelta64[ns]"}

\* A cell is a value or the missing-value marker NaN.  Values are small
\* naturals: numbers in a numeric column, and the codes of distinct strings,
\* booleans or timestamps in the other columns.
NaN == -1

CellValues == {0, 1}

ColumnsOfLen(n) ==
    { c \in [dtype : Dtypes, cells : [1..n -> CellValues \cup {NaN}]] :
        c.dtype \in {"bool", "int64"} => \A k \in 1..n : c.cells[k] # NaN }

TableColumns == {"c1", "c2"}

Tables == UNION { [TableColumns -> ColumnsOfLen(n)] : n \in 0..MaxRows }

\* pandas.api.types predicates on the storage type.  Bool storage is numeric
\* storage too for is_numeric_dtype.
is_bool_dtype(series) == series.dtype = "bool"
is_numeric_dtype(series) == series.dtype \in {"bool", "int64", "float64"}
is_datetime64_any_dtype(series) == series.dtype = "datetime64[ns]"
is_object_dtype(series) == series.dtype = "object"

\* series.dropna(), len(series), series.nunique(dropna=True)
NonNullIdx(series) == { k \in 1..Len(series.cells) : series.cells[k] # NaN }
NonNullCount(series) == Cardinality(NonNullIdx(series))
nunique(series) == Cardinality({ series.cells[k] : k \in NonNullIdx(series) })
MaxOf(a, b) == IF a >= b THEN a ELSE b

\* profiling.py:21-24  unique_ratio = nunique / max(len(series), 1);
\* unique_ratio > 0.5, over the integers: 2 * nunique > max(len, 1).
UniqueRatioHigh(series) ==
    2 * nunique(series) > MaxOf(Len(series.cells), 1)

\* Mutant of infer_column_type: the numeric test comes before the bool test.
infer_column_type_NumericFirst(series) ==
    IF is_numeric_dtype(series) THEN "numeric"
    ELSE IF is_bool_dtype(series) THEN "boolean"
    ELSE IF is_datetime64_any_dtype(series) THEN "datetime"
    ELSE IF is_object_dtype(series)
         THEN IF UniqueRatioHigh(series) THEN "text" ELSE "categorical"
    ELSE "unknown"

\* profiling.py:6-29
infer_column_type(series) ==
    IF is_bool_dtype(series) THEN "boolean"
    ELSE IF is_numeric_dtype(series) THEN "numeric"
    ELSE IF is_datetime64_any_dtype(series) THEN "datetime"
    ELSE IF is_object_dtype(series)
         THEN IF UniqueRatioHigh(series) THEN "text" ELSE "categorical"
    ELSE "unknown"

\* The numpy scalar type of a reduction (min, max) over a numeric column.
ScalarType(series) == IF series.dtype = "int64" THEN "numpy.int64" ELSE "numpy.float64"

\* series.value_counts(dropna=True).head(n).to_dict(): value -> count
ValueCounts(series) ==
    [x \in { series.cells[k] : k \in NonNullIdx(series) } |->
        Py("int", Cardinality({ k \in NonNullIdx(series) : series.cells[k] = x }))]

\* profiling.py:48-70  the type-specific part of the profile
TypeSpecific(series, col_type) ==
    IF col_type = "numeric"
    THEN [min    |-> Py(ScalarType(series), NULL),
          max    |-> Py(ScalarType(series), NULL),
          mean   |-> Py("numpy.float64", NULL),
          median |-> Py("numpy.float64", NULL),
          std    |-> Py("numpy.float64", NULL),
          skew   |-> Py("numpy.float64", NULL)]
    ELSE IF col_type = "categorical"
    THEN [top_values |-> PyDict(ValueCounts(series))]
    ELSE IF col_type = "datetime"
    THEN [min_date |-> Py(IF NonNullCount(series) = 0 THEN "NaTType" ELSE "Timestamp", NULL),
          max_date |-> Py(IF NonNullCount(series) = 0 THEN "NaTType" ELSE "Timestamp", NULL)]
    ELSE IF col_type = "text"
    THEN [sample_values |->
            PyList([k \in 1..NonNullCount(series) |-> Py("str", NULL)])]
    ELSE <<>>

\* profiling.py:32-72
profile_column(series) ==
    LET col_type == infer_column_type(series)
    IN  PyDict(
          [dtype          |-> Py("str", series.dtype),
           logical_type   |-> Py("str", col_type),
           non_null_count |-> Py("int", NonNullCount(series)),
           null_count     |-> Py("int", Len(series.cells) - NonNullCount(series)),
           null_pct       |-> Py("numpy.float64", NULL),
           unique_values  |-> Py("int", nunique(series))]
          @@ TypeSpecific(series, col_type))

\* profiling.py:75-87  profile_dataframe(df)["columns"]
profile_dataframe(table) ==
    PyDict([col \in DOMAIN table |-> profile_column(table[col])])

\* app.py:43-44
ProfileDataframe ==
    /\ prof_pc = "loaded"
    /\ profiling' = profile_dataframe(df)
    /\ prof_pc' = "profiled"
    /\ UNCHANGED <<df, analytics, prompt_input>>
    /\ UNCHANGED notProfVars

InitInfer ==
    /\ df \in Tables
    /\ profiling = NULL
    /\ analytics = NULL
    /\ prompt_input = NULL
    /\ prof_pc = "loaded"
    /\ NotProfIdle

NextInfer == ProfileDataframe

SpecInfer == InitInfer /\ [][NextInfer]_vars

(***************************************************************************)
(* Claims about infer_column_type (SpecInfer)                              *)
(***************************************************************************)

LogicalTypes == {"numeric", "categorical", "text", "datetime", "boolean", "unknown"}

LogicalTypeOf(col) == profiling.v[col].v.logical_type.v

\* C4: every column is given exactly one of the six logical types, fixed by
\* the storage type of that column alone in the order boolean, numeric,
\* timestamp, string/object, else unknown; a boolean-storage column is
\* boolean whatever its cardinality and whatever the other column holds.
C4_InferByStorageOrder ==
    prof_pc = "profiled" =>
        \A col \in DOMAIN df :
            LET d == df[col].dtype
                lt == LogicalTypeOf(col)
            IN  /\ lt \in LogicalTypes
                /\ d = "bool" => lt = "boolean"
                /\ d \in {"int64", "float64"} => lt = "numeric"
                /\ d = "datetime64[ns]" => lt = "datetime"
                /\ d = "object" => lt \in {"text", "categorical"}
                /\ d \in {"category", "timedelta64[ns]"} => lt = "unknown"

\* C4 witness: a boolean column whose values are all distinct, next to a
\* string column, has been profiled.
C4_Witness ==
    /\ prof_pc = "profiled"
    /\ df["c1"].dtype = "bool"
    /\ Len(df["c1"].cells) = 2
    /\ nunique(df["c1"]) = 2
    /\ df["c2"].dtype = "object"
    /\ LogicalTypeOf("c1") = "boolean"

\* C5 as stated: a string column is text exactly when
\* distinct non-null values / non-null count > 0.5, nulls or not.
C5_TextIffRatioOfNonNull ==
    prof_pc = "profiled" =>
        \A col \in DOMAIN df :
            df[col].dtype = "object" =>
                (LogicalTypeOf(col) = "text"
                    <=> 2 * nunique(df[col]) > NonNullCount(df[col]))

(***************************************************************************)
(* analytics.py: numeric_column_stats                                      *)
(***************************************************************************)

\* The k-th smallest (k from 0) of the non-null values: the sorted array
\* Series.quantile interpolates in.
Kth(series, k) ==
    LET idx == NonNullIdx(series)
    IN  CHOOSE v \in { series.cells[j] : j \in idx } :
          /\ Cardinality({ j \in idx : series.cells[j] < v }) <= k
          /\ Cardinality({ j \in idx : series.cells[j] <= v }) > k

\* Mutant of Quantile4: the position is q * n instead of q * (n - 1).
Quantile4_PosByN(series, quarters) ==
    LET n == NonNullCount(series)
        pos4 == quarters * n
        lo == IF pos4 \div 4 > n - 1 THEN n - 1 ELSE pos4 \div 4
        hi == IF lo + 1 > n - 1 THEN n - 1 ELSE lo + 1
    IN  4 * Kth(series, lo) + (pos4 % 4) * (Kth(series, hi) - Kth(series, lo))

\* analytics.py:32-33  series.quantile(quarters / 4), pandas' default linear
\* interpolation, times 4: the position is q * (n - 1), the value
\* x[lo] + frac * (x[hi] - x[lo]).  On small integers the float arithmetic of
\* the code is exact, so the integers 4 * q stand for it.
Quantile4(series, quarters) ==
    LET n == NonNullCount(series)
        pos4 == quarters * (n - 1)
        lo == pos4 \div 4
        hi == IF pos4 % 4 = 0 THEN lo ELSE lo + 1
    IN  4 * Kth(series, lo) + (pos4 % 4) * (Kth(series, hi) - Kth(series, lo))

\* Mutant of IsOutlier: a value on a fence counts as an outlier.
IsOutlier_Inclusive(q1_4, q3_4, v) ==
    LET iqr_4 == q3_4 - q1_4
    IN  \/ 8 * v <= 2 * q1_4 - 3 * iqr_4
        \/ 8 * v >= 2 * q3_4 + 3 * iqr_4

\* analytics.py:35  the mask for one value v, all sides times 8:
\* v < q1 - 1.5 * iqr  or  v > q3 + 1.5 * iqr   (q1_4 = 4 * q1, q3_4 = 4 * q3)
IsOutlier(q1_4, q3_4, v) ==
    LET iqr_4 == q3_4 - q1_4
    IN  \/ 8 * v < 2 * q1_4 - 3 * iqr_4
        \/ 8 * v > 2 * q3_4 + 3 * iqr_4

\* analytics.py:32-35  q1, q3, iqr and (mask).sum()
OutlierCount(series) ==
    LET q1_4 == Quantile4(series, 1)
        q3_4 == Quantile4(series, 3)
    IN  Cardinality({ j \in NonNullIdx(series) :
                        IsOutlier(q1_4, q3_4, series.cells[j]) })

\* analytics.py:20-45  a column whose dropna() is empty is skipped.
numeric_column_stats(table, cols) ==
    [col \in { c \in cols : NonNullCount(table[c]) > 0 } |->
        [mean          |-> Py("numpy.float64", NULL),
         median        |-> Py("numpy.float64", NULL),
         std           |-> Py("numpy.float64", NULL),
         skew          |-> Py("numpy.float64", NULL),
         outlier_count |-> Py("int", OutlierCount(table[col]))]]

OutColumns ==
    UNION { [dtype : {"float64"}, cells : [1..n -> (0..MaxVal) \cup {NaN}]] :
              n \in 0..MaxLen }

OutSeries == out_df["x"]
OutValues == { OutSeries.cells[j] : j \in NonNullIdx(OutSeries) }
OutMax == CHOOSE v \in OutValues : \A w \in OutValues : w <= v
OutMin == CHOOSE v \in OutValues : \A w \in OutValues : w >= v

\* The column with cell j set to v, and the statistics computed again.
Rerun(j, v) ==
    /\ out_df' = [out_df EXCEPT !["x"].cells[j] = v]
    /\ out_stats' = numeric_column_stats(out_df', {"x"})
    /\ out_prev' = <<out_stats>>
    /\ UNCHANGED notOutVars

\* The largest value of the column is moved up, everything else unchanged.
PushMaxUp ==
    /\ OutValues # {}
    /\ LET mx == OutMax
       IN  \E j \in { k \in NonNullIdx(OutSeries) : OutSeries.cells[k] = mx } :
             \E v \in (mx + 1)..MaxVal : Rerun(j, v)

\* The smallest value of the column is moved down, everything else unchanged.
PushMinDown ==
    /\ OutValues # {}
    /\ LET mn == OutMin
       IN  \E j \in { k \in NonNullIdx(OutSeries) : OutSeries.cells[k] = mn } :
             \E v \in 0..(mn - 1) : Rerun(j, v)

InitOutlier ==
    /\ \E c \in OutColumns : out_df = [x |-> c]
    /\ out_stats = numeric_column_stats(out_df, {"x"})
    /\ out_prev = <<>>
    /\ NotOutIdle

NextOutlier == PushMaxUp \/ PushMinDown

SpecOutlier == InitOutlier /\ [][NextOutlier]_vars

(***************************************************************************)
(* Claims about numeric_column_stats (SpecOutlier)                         *)
(***************************************************************************)

OutCount(stats) == stats["x"].outlier_count.v

\* C6 as stated: with at least 4 non-null values, moving the largest value up
\* (or the smallest down) never lowers outlier_count.
C6_MonotoneFrom4 ==
    (out_prev # <<>> /\ NonNullCount(OutSeries) >= 4) =>
        OutCount(out_stats) >= OutCount(out_prev[1])

\* C6 amended: with at least 5 non-null values, moving the largest value up
\* (or the smallest down) never lowers outlier_count.
C6_MonotoneFrom5 ==
    (out_prev # <<>> /\ NonNullCount(OutSeries) >= 5) =>
        OutCount(out_stats) >= OutCount(out_prev[1])

\* C6 witness: in a column of at least 5 non-null values the largest value
\* was moved up and became an outlier.
C6_Witness ==
    /\ out_prev # <<>>
    /\ NonNullCount(OutSeries) >= 5
    /\ OutCount(out_prev[1]) = 0
    /\ OutCount(out_stats) = 1
    /\ IsOutlier(Quantile4(OutSeries, 1), Quantile4(OutSeries, 3), OutMax)

(***************************************************************************)
(* analytics.py: correlation_analysis                                      *)
(***************************************************************************)

\* The numeric columns of the table.
CorrColumns == {"a", "b", "c", "d"}

CorrPairs == { {x, y} : x, y \in CorrColumns } \ { {x} : x \in CorrColumns }

\* Pearson correlation is symmetric, so the matrix is a value per unordered
\* pair; the values are levels 0..MaxCorr (a larger level is a larger
\* correlation) or NaN (a column without variance).
CorrMatrices == [CorrPairs -> (0..MaxCorr) \cup {NaN}]

\* analytics.py:115-118  run_analytics lists the numeric columns in the order
\* of the table; TableOrder is the order of the table as loaded.
TableOrder == <<"a", "b", "c", "d">>

\* analytics.py:73  top_n: int = 5
TopN == 5

\* Mutant of Triangle: the mask keeps every off-diagonal cell (np.triu dropped).
Triangle_OffDiagonal(n) ==
    { ij \in (1..n) \X (1..n) : ij[1] # ij[2] }

\* analytics.py:84  np.triu(np.ones(corr_matrix.shape), k=1): the cells
\* <<row, column>> strictly above the diagonal.
Triangle(n) ==
    { ij \in (1..n) \X (1..n) : ij[1] < ij[2] }

\* analytics.py:83-88  where(mask).stack().reset_index(): the kept cells in
\* row-major order, the cells whose value is NaN dropped by stack(), as
\* records feature_1, feature_2, correlation.
CellsBefore(cells, ij) ==
    { kl \in cells : kl[1] < ij[1] \/ (kl[1] = ij[1] /\ kl[2] < ij[2]) }

CorrPairsFrame(matrix, cols) ==
    LET kept == { ij \in Triangle(Len(cols)) : matrix[{cols[ij[1]], cols[ij[2]]}] # NaN }
    IN  [r \in 1..Cardinality(kept) |->
            LET ij == CHOOSE c \in kept : Cardinality(CellsBefore(kept, c)) = r - 1
            IN  [feature_1   |-> cols[ij[1]],
                 feature_2   |-> cols[ij[2]],
                 correlation |-> matrix[{cols[ij[1]], cols[ij[2]]}]]]

\* analytics.py:90-100  sort_values("correlation", ascending=...).head(top_n):
\* rows of equal value stay in frame order (the sort pandas runs on a frame of
\* at most 16 rows is an insertion sort, and a descending sort keeps frame
\* order among equals as well).
SortHead(frame, ascending, top_n) ==
    LET n == Len(frame)
        Before(k, j) ==
            \/ IF ascending THEN frame[k].correlation < frame[j].correlation
                            ELSE frame[k].correlation > frame[j].correlation
            \/ frame[k].correlation = frame[j].correlation /\ k < j
        Rank(j) == Cardinality({ k \in 1..n : Before(k, j) }) + 1
    IN  [r \in 1..(IF n < top_n THEN n ELSE top_n) |->
            frame[CHOOSE j \in 1..n : Rank(j) = r]]

\* analytics.py:70-105
correlation_analysis(matrix, cols) ==
    IF Len(cols) < 2
    THEN PyDict(<<>>)
    ELSE LET corr_pairs == CorrPairsFrame(matrix, cols)
         IN  PyDict([top_positive_correlations |-> SortHead(corr_pairs, FALSE, TopN),
                     top_negative_correlations |-> SortHead(corr_pairs, TRUE, TopN)])

\* The analysis is run again on the same table with two neighbouring numeric
\* columns exchanged (every order is a sequence of such exchanges).
PermuteColumns ==
    /\ \E i \in 1..(Len(numeric_cols) - 1) :
          /\ numeric_cols' = [numeric_cols EXCEPT ![i] = numeric_cols[i + 1],
                                                  ![i + 1] = numeric_cols[i]]
          /\ corr_result' = correlation_analysis(corr_matrix, numeric_cols')
    /\ UNCHANGED <<corr_matrix, corr_first>>
    /\ UNCHANGED notCorrVars

InitCorr ==
    /\ corr_matrix \in CorrMatrices
    /\ numeric_cols = TableOrder
    /\ corr_result = correlation_analysis(corr_matrix, numeric_cols)
    /\ corr_first = corr_result
    /\ NotCorrIdle

NextCorr == PermuteColumns

SpecCorr == InitCorr /\ [][NextCorr]_vars

(***************************************************************************)
(* Claims about correlation_analysis (SpecCorr)                            *)
(***************************************************************************)

\* The unordered column pairs of a result list.
PairsOf(records) ==
    { {records[k].feature_1, records[k].feature_2} : k \in 1..Len(records) }

NoPairTwice(records) ==
    \A k, l \in 1..Len(records) :
        k # l => {records[k].feature_1, records[k].feature_2}
                   # {records[l].feature_1, records[l].feature_2}

TopPositive(result) == result.v.top_positive_correlations
TopNegative(result) == result.v.top_negative_correlations

\* C7 as stated: whatever the values and the order of the numeric columns,
\* the top-N positive and the top-N negative lists hold the same unordered
\* pairs as for the order of the table as loaded, each pair at most once.
C7_PermutationInvariant ==
    /\ PairsOf(TopPositive(corr_result)) = PairsOf(TopPositive(corr_first))
    /\ PairsOf(TopNegative(corr_result)) = PairsOf(TopNegative(corr_first))
    /\ NoPairTwice(TopPositive(corr_result))
    /\ NoPairTwice(TopNegative(corr_result))

\* The pairs that have a correlation value, and whether the N largest
\* (smallest) of them are determined by the values alone: there are at most
\* N, or some value t has exactly N pairs at or above (below) it.
ValuedPairs == { p \in CorrPairs : corr_matrix[p] # NaN }

NoTieAtTopCut ==
    \/ Cardinality(ValuedPairs) <= TopN
    \/ \E t \in 0..MaxCorr :
          Cardinality({ p \in ValuedPairs : corr_matrix[p] >= t }) = TopN

NoTieAtBottomCut ==
    \/ Cardinality(ValuedPairs) <= TopN
    \/ \E t \in 0..MaxCorr :
          Cardinality({ p \in ValuedPairs : corr_matrix[p] <= t }) = TopN

\* C7 amended: each list holds every unordered pair at most once, and under
\* any reordering of the numeric columns a list holds the same unordered pairs
\* provided no pair left out of it has the same correlation value as a pair
\* in it (so always when there are at most N pairs).
C7_InvariantWithoutTieAtCut ==
    /\ NoTieAtTopCut =>
          PairsOf(TopPositive(corr_result)) = PairsOf(TopPositive(corr_first))
    /\ NoTieAtBottomCut =>
          PairsOf(TopNegative(corr_result)) = PairsOf(TopNegative(corr_first))
    /\ NoPairTwice(TopPositive(corr_result))
    /\ NoPairTwice(TopNegative(corr_result))

\* C7 witness: more pairs than N have a value, no tie at the top cut, the
\* columns have been reordered so that the first column is another one, and
\* the top-N positive list holds the same N pairs.
C7_Witness ==
    /\ Cardinality(ValuedPairs) > TopN
    /\ NoTieAtTopCut
    /\ numeric_cols[1] = "d"
    /\ TopPositive(corr_first)[1].feature_1 # "d"
    /\ TopPositive(corr_first)[1].feature_2 # "d"
    /\ Len(TopPositive(corr_result)) = TopN
    /\ PairsOf(TopPositive(corr_result)) = PairsOf(TopPositive(corr_first))

(***************************************************************************)
(* analytics.py: run_analytics;  gemini.py: convert_to_python, build_prompt *)
(***************************************************************************)

\* analytics.py:7-17
dataset_level_stats(table) ==
    PyDict([num_rows           |-> Py("int", NULL),
            num_columns        |-> Py("int", NULL),
            duplicate_rows_pct |-> Py("numpy.float64", NULL),
            total_missing_pct  |-> Py("numpy.float64", NULL),
            memory_usage_mb    |-> Py("numpy.float64", NULL)])

\* analytics.py:48-67
categorical_column_stats(table, cols) ==
    [col \in cols |->
        PyDict([unique_values    |-> Py("int", nunique(table[col])),
                high_cardinality |-> Py("bool", NULL),
                top_categories   |-> PyDict(ValueCounts(table[col]))])]

\* analytics.py:81  df[numeric_cols].corr() of the profiled table: a pair has
\* a correlation unless, over the rows where both cells are present, one of
\* the two columns has no variance; the value itself is not computed.
TableCorr(table, cols) ==
    [p \in { {x, y} : x, y \in cols } \ { {x} : x \in cols } |->
        LET both == { k \in 1..Len(table[CHOOSE x \in p : TRUE].cells) :
                        \A x \in p : table[x].cells[k] # NaN }
        IN  IF \A x \in p : Cardinality({ table[x].cells[k] : k \in both }) >= 2
            THEN 0 ELSE NaN]

\* to_dict(orient="records") of a list of correlation records, as Python values
RecordsTree(records) ==
    PyList([k \in 1..Len(records) |->
        PyDict([feature_1   |-> Py("str", records[k].feature_1),
                feature_2   |-> Py("str", records[k].feature_2),
                correlation |-> Py("float", NULL)])])

\* The numeric columns in table order, as run_analytics lists them.
InTableOrder(cols) ==
    IF cols = {"c1", "c2"} THEN <<"c1", "c2">>
    ELSE IF cols = {"c1"} THEN <<"c1">>
    ELSE IF cols = {"c2"} THEN <<"c2">>
    ELSE <<>>

\* analytics.py:108-131
run_analytics(table, column_profiles) ==
    LET numeric == { c \in DOMAIN column_profiles.v :
                        column_profiles.v[c].v.logical_type.v = "numeric" }
        categorical == { c \in DOMAIN column_profiles.v :
                        column_profiles.v[c].v.logical_type.v = "categorical" }
        nstats == numeric_column_stats(table, numeric)
        corr == correlation_analysis(TableCorr(table, numeric), InTableOrder(numeric))
    IN  PyDict(
          [dataset             |-> dataset_level_stats(table),
           numeric_columns     |-> PyDict([c \in DOMAIN nstats |-> PyDict(nstats[c])]),
           categorical_columns |-> PyDict(categorical_column_stats(table, categorical)),
           correlations        |->
               IF DOMAIN corr.v = {} THEN PyDict(<<>>)
               ELSE PyDict([top_positive_correlations |->
                                RecordsTree(corr.v.top_positive_correlations),
                            top_negative_correlations |->
                                RecordsTree(corr.v.top_negative_correlations)])])

\* gemini.py:43-48  the isinstance tests on numpy scalars
NumpyInteger == {"numpy.int64", "numpy.int32"}
NumpyFloating == {"numpy.float64", "numpy.float32"}

\* gemini.py:35-50
RECURSIVE convert_to_python(_)
convert_to_python(obj) ==
    IF obj.t = "dict"
    THEN PyDict([k \in DOMAIN obj.v |-> convert_to_python(obj.v[k])])
    ELSE IF obj.t = "list"
    THEN PyList([k \in DOMAIN obj.v |-> convert_to_python(obj.v[k])])
    ELSE IF obj.t \in NumpyInteger THEN Py("int", obj.v)
    ELSE IF obj.t \in NumpyFloating THEN Py("float", obj.v)
    ELSE IF obj.t = "numpy.bool_" THEN Py("bool", obj.v)
    ELSE obj

\* The runtime types of the scalars of a tree of dicts and lists.
RECURSIVE ScalarTypes(_)
ScalarTypes(obj) ==
    IF obj.t \in {"dict", "list"}
    THEN UNION { ScalarTypes(obj.v[k]) : k \in DOMAIN obj.v }
    ELSE {obj.t}

\* The types json.dumps can encode (gemini.py:92, gemini.py:95).
JsonTypes == {"str", "int", "float", "bool", "NoneType"}

\* app.py:47
RunAnalytics ==
    /\ prof_pc = "profiled"
    /\ analytics' = run_analytics(df, profiling)
    /\ prof_pc' = "analysed"
    /\ UNCHANGED <<df, profiling, prompt_input>>
    /\ UNCHANGED notProfVars

\* gemini.py:54-111  build_prompt: both trees are converted, then dumped;
\* json.dumps raises TypeError on a value of any other type.
BuildPrompt ==
    /\ prof_pc = "analysed"
    /\ prompt_input' = <<convert_to_python(profiling), convert_to_python(analytics)>>
    /\ prof_pc' =
          IF ScalarTypes(prompt_input'[1]) \cup ScalarTypes(prompt_input'[2]) \subseteq JsonTypes
          THEN "prompt_built" ELSE "prompt_raised"
    /\ UNCHANGED <<df, profiling, analytics>>
    /\ UNCHANGED notProfVars

NextPrompt == ProfileDataframe \/ RunAnalytics \/ BuildPrompt

SpecPrompt == InitInfer /\ [][NextPrompt]_vars

(***************************************************************************)
(* Claims about build_prompt (SpecPrompt)                                  *)
(***************************************************************************)

\* C10 as stated: once build_prompt has converted the column profiles and the
\* analytics bundle, every scalar of both trees is a string, a number or a
\* boolean: no numpy scalar and no timestamp is left.
C10_OnlyPrimitivesAfterConvert ==
    prof_pc \in {"prompt_built", "prompt_raised"} =>
        ScalarTypes(prompt_input[1]) \cup ScalarTypes(prompt_input[2])
            \subseteq {"str", "int", "float", "bool"}

(***************************************************************************)
(* analytics.py: numeric_column_stats as run_analytics calls it            *)
(***************************************************************************)

\* A float column of n cells, all of them NaN.
AllNull(n) == [dtype |-> "float64", cells |-> [k \in 1..n |-> NaN]]

\* The table of the worked scenario: c1 is `age`, c2 is `city` (six strings,
\* two distinct, here the codes 0 and 1).
ScenarioTable ==
    [c1 |-> [dtype |-> "int64", cells |-> <<20, 21, 22, 23, 24, 99>>],
     c2 |-> [dtype |-> "object", cells |-> <<0, 1, 0, 1, 0, 1>>]]

\* The tables given to the statistics pass: a float column of up to MaxLen
\* cells 0..MaxVal or NaN beside a column that holds no value at all, and the
\* table of the scenario.
StatsTables ==
    { [c1 |-> c, c2 |-> AllNull(Len(c.cells))] : c \in OutColumns }
        \cup {ScenarioTable}

InitStats ==
    /\ df \in StatsTables
    /\ profiling = NULL
    /\ analytics = NULL
    /\ prompt_input = NULL
    /\ prof_pc = "loaded"
    /\ NotProfIdle

NextStats == ProfileDataframe \/ RunAnalytics

SpecStats == InitStats /\ [][NextStats]_vars

(***************************************************************************)
(* Claims about numeric_column_stats (SpecStats)                           *)
(***************************************************************************)

\* The non-null values of a column in ascending order.
RECURSIVE SortedAscending(_, _)
SortedAscending(series, idx) ==
    IF idx = {} THEN <<>>
    ELSE LET j == CHOOSE k \in idx :
                     \A m \in idx : series.cells[k] <= series.cells[m]
         IN  <<series.cells[j]>> \o SortedAscending(series, idx \ {j})

\* Four times the p-th quartile of an ascending sequence s of n values: the
\* value at rank p(n - 1)/4, the weighted mean of its two neighbours when the
\* rank falls between two of them.
QuartileTimes4(s, p) ==
    LET h == p * (Len(s) - 1)
        below == h \div 4 + 1
        above == IF below + 1 > Len(s) THEN Len(s) ELSE below + 1
    IN  (4 - (h % 4)) * s[below] + (h % 4) * s[above]

\* The interquartile range rule: v < Q1 - 1.5 IQR or v > Q3 + 1.5 IQR with
\* IQR = Q3 - Q1, that is 8v < 5(4 Q1) - 3(4 Q3) or 8v > 5(4 Q3) - 3(4 Q1).
IqrRuleOutliers(series) ==
    LET s == SortedAscending(series, NonNullIdx(series))
        Q1 == QuartileTimes4(s, 1)
        Q3 == QuartileTimes4(s, 3)
    IN  { j \in NonNullIdx(series) :
            \/ 8 * series.cells[j] < 5 * Q1 - 3 * Q3
            \/ 8 * series.cells[j] > 5 * Q3 - 3 * Q1 }

NumericStats == analytics.v.numeric_columns.v

NumericColumns == { c \in DOMAIN df : df[c].dtype \in {"int64", "float64"} }

\* C11: after the statistics pass, every numeric column with a non-null value
\* is in the result with outlier_count equal to the number of its non-null
\* values beyond the fences Q1 - 1.5 IQR and Q3 + 1.5 IQR; the column
\* 20, 21, 22, 23, 24, 99 has outlier_count 1; a numeric column without a
\* non-null value is not in the result, and the pass completes.
C11_OutlierCountIsIqrRule ==
    prof_pc = "analysed" =>
        /\ \A c \in NumericColumns :
              IF NonNullCount(df[c]) = 0
              THEN c \notin DOMAIN NumericStats
              ELSE /\ c \in DOMAIN NumericStats
                   /\ NumericStats[c].v.outlier_count.v
                        = Cardinality(IqrRuleOutliers(df[c]))
        /\ df = ScenarioTable => NumericStats["c1"].v.outlier_count.v = 1

\* C11 witness: the statistics pass has run on a table whose first column
\* holds a null and four values, the largest of them the one outlier counted,
\* and whose second column holds no value and is not in the result.
C11_Witness ==
    /\ prof_pc = "analysed"
    /\ df["c1"].cells = <<NaN, 0, 0, 0, 3>>
    /\ NumericStats["c1"].v.outlier_count.v = 1
    /\ NonNullCount(df["c2"]) = 0
    /\ DOMAIN NumericStats = {"c1"}

(***************************************************************************)
(* loader.py                                                               *)
(***************************************************************************)

\* loader.py:6
SUPPORTED_EXTENSIONS == {".csv", ".xls", ".xlsx"}

\* loader.py:45, loader.py:48
MinColumns == 2
MinRows == 5

\* The uploads: the extension of the name, whether pandas can read the file,
\* and the shape of the table it reads.  The table of a spreadsheet may hold a
\* timestamp column (read_excel parses dates).
UploadedFiles ==
    { f \in [ext : {".csv", ".xlsx", ".txt"}, readable : BOOLEAN,
              rows : 0..MaxFileRows, columns : 0..MaxFileCols,
              has_datetime : BOOLEAN] :
        f.has_datetime => (f.ext = ".xlsx" /\ f.readable /\ f.rows > 0 /\ f.columns > 0) }

\* Mutant of load_dataset: the row test is missing.
load_dataset_NoRowTest(file) ==
    IF file.ext \notin SUPPORTED_EXTENSIONS THEN "Unsupported file format"
    ELSE IF ~file.readable THEN "Failed to read file"
    ELSE IF file.rows = 0 \/ file.columns = 0 THEN "Dataset is empty"
    ELSE IF file.columns < MinColumns THEN "Dataset must contain at least 2 columns"
    ELSE NULL

\* loader.py:9-51  the message of the ValueError raised, or NULL when the
\* table is returned.  df.empty holds when either axis has length 0.
load_dataset(file) ==
    IF file.ext \notin SUPPORTED_EXTENSIONS THEN "Unsupported file format"
    ELSE IF ~file.readable THEN "Failed to read file"
    ELSE IF file.rows = 0 \/ file.columns = 0 THEN "Dataset is empty"
    ELSE IF file.columns < MinColumns THEN "Dataset must contain at least 2 columns"
    ELSE IF file.rows < MinRows
         THEN "Dataset must contain at least 5 rows for meaningful EDA"
    ELSE NULL

(***************************************************************************)
(* gemini.py: call_gemini                                                  *)
(***************************************************************************)

\* What the model's answer text holds once the code fences are removed
\* (gemini.py:119): prose before and after or not, and a body that is a JSON
\* object (with its "plots" member), another JSON value, or no JSON at all.
PlotsMembers == {"missing", "null", "empty_list", "list", "string", "number"}

Bodies ==
    [json : {"object"}, plots : PlotsMembers]
      \cup [json : {"array", "empty_array", "null", "number", "none"},
            plots : {"missing"}]

\* The generator: the call raises (unreachable, quota, bad key), answers with
\* no text, or answers with a text.
Responses ==
    [kind : {"raises", "no_text"}, prose : {FALSE}, body : {[json |-> "none", plots |-> "missing"]}]
      \cup [kind : {"text"}, prose : BOOLEAN, body : Bodies]

Environments == [api_key : BOOLEAN, response : Responses]

\* Values of gemini_output: the Python type, whether the value is empty, the
\* "plots" member of a dict, and whether it is the dict of gemini.py:152-158.
PyNone == [t |-> "NoneType", empty |-> TRUE, plots |-> "missing", default |-> FALSE]
PyJson(body) ==
    [t |-> CASE body.json = "object" -> "dict"
             [] body.json \in {"array", "empty_array"} -> "list"
             [] body.json = "null" -> "NoneType"
             [] body.json = "number" -> "int",
     empty |-> body.json \in {"empty_array", "null"},
     plots |-> body.plots,
     default |-> FALSE]

\* An exception leaving a function.
Raised(type) == [t |-> type, empty |-> TRUE, plots |-> "missing", default |-> FALSE]
IsRaised(value) == value.t \in {"ValueError", "Exception"}

\* gemini.py:152-158
DefaultInsights ==
    [t |-> "dict", empty |-> FALSE, plots |-> "empty_list", default |-> TRUE]

\* gemini.py:115-133  the value returned, or the ValueError raised.
\* json.loads of the whole text returns whatever JSON value the text is; when
\* prose surrounds the body, only a {...} span found by the regular expression
\* is parsed: the object itself, or the single request object of an array.
_extract_json(response) ==
    IF ~response.prose
    THEN IF response.body.json = "none" THEN Raised("ValueError")
         ELSE PyJson(response.body)
    ELSE IF response.body.json = "object" THEN PyJson(response.body)
    ELSE IF response.body.json = "array"
         THEN [t |-> "dict", empty |-> FALSE, plots |-> "missing", default |-> FALSE]
    ELSE Raised("ValueError")

\* Mutant of call_gemini: the except clause is missing.
call_gemini_NoExcept(response) ==
    IF response.kind = "raises" THEN Raised("Exception")
    ELSE IF response.kind = "no_text" THEN Raised("ValueError")
    ELSE _extract_json(response)

\* gemini.py:137-158
call_gemini(response) ==
    IF response.kind \in {"raises", "no_text"} THEN DefaultInsights
    ELSE IF IsRaised(_extract_json(response)) THEN DefaultInsights
    ELSE _extract_json(response)

\* bool(x) of a value of gemini_output, and of its "plots" member.
Truthy(value) == ~value.empty
PlotsTruthy(value) == value.plots \in {"list", "string", "number"}

(***************************************************************************)
(* app.py: the main flow of one analysis pass                              *)
(***************************************************************************)

\* app.py:132-133  the outer `except Exception as e: st.error(str(e))`
OuterExcept(message) ==
    /\ errors' = Append(errors, <<"outer", message>>)
    /\ app_pc' = "done"

\* app.py:35-40  load_dataset, the success box and the preview
AppLoad ==
    /\ app_pc = "uploaded"
    /\ calls' = Append(calls, "load_dataset")
    /\ IF load_dataset(uploaded_file) # NULL
       THEN /\ OuterExcept(load_dataset(uploaded_file))
            /\ UNCHANGED shown
       ELSE /\ shown' = shown \cup {"success", "preview"}
            /\ app_pc' = "loaded"
            /\ UNCHANGED errors
    /\ UNCHANGED <<uploaded_file, environment, gemini_output, plans_given>>
    /\ UNCHANGED notAppVars

\* app.py:43-44
AppProfile ==
    /\ app_pc = "loaded"
    /\ calls' = Append(calls, "profile_dataframe")
    /\ app_pc' = "profiled"
    /\ UNCHANGED <<uploaded_file, environment, gemini_output, plans_given, shown, errors>>
    /\ UNCHANGED notAppVars

\* app.py:47
AppAnalytics ==
    /\ app_pc = "profiled"
    /\ calls' = Append(calls, "run_analytics")
    /\ app_pc' = "analysed"
    /\ UNCHANGED <<uploaded_file, environment, gemini_output, plans_given, shown, errors>>
    /\ UNCHANGED notAppVars

\* app.py:51-74  the overview metrics and the column profiling table
AppShowStatistics ==
    /\ app_pc = "analysed"
    /\ shown' = shown \cup {"overview", "column_profiling"}
    /\ app_pc' = "statistics_shown"
    /\ UNCHANGED <<uploaded_file, environment, gemini_output, calls, plans_given, errors>>
    /\ UNCHANGED notAppVars

\* gemini.py:23-29  init_gemini() raises without a key.
\* gemini.py:54-111, 162-170  get_gemini_insights: build_prompt dumps the
\* converted profiles with json.dumps, which raises TypeError on the Timestamp
\* of a datetime column's min_date; otherwise the result of call_gemini.
get_gemini_insights(file, env) ==
    IF file.has_datetime THEN Raised("Exception") ELSE call_gemini(env.response)

\* app.py:80-108  gemini_output = None, then the try block: every exception in
\* it is caught by `except Exception as e` of line 107.  Reading
\* gemini_output.get(...) raises AttributeError unless the value is a dict.
AppInsights ==
    /\ app_pc = "statistics_shown"
    /\ IF ~environment.api_key
       THEN /\ gemini_output' = PyNone
            /\ errors' = Append(errors, <<"insights", "Gemini insights unavailable">>)
            /\ UNCHANGED <<calls, shown>>
       ELSE /\ calls' = Append(calls, "get_gemini_insights")
            /\ LET out == get_gemini_insights(uploaded_file, environment)
               IN  IF IsRaised(out)
                   THEN /\ gemini_output' = PyNone
                        /\ errors' = Append(errors,
                               <<"insights", "Gemini insights unavailable">>)
                        /\ UNCHANGED shown
                   ELSE /\ gemini_output' = out
                        /\ IF out.t = "dict"
                           THEN /\ shown' = shown \cup {"insights"}
                                /\ UNCHANGED errors
                           ELSE /\ errors' = Append(errors,
                                       <<"insights", "Gemini insights unavailable">>)
                                /\ UNCHANGED shown
    /\ app_pc' = "insights_done"
    /\ UNCHANGED <<uploaded_file, environment, plans_given>>
    /\ UNCHANGED notAppVars

\* app.py:113-130  the visualizations.  generate_plots iterates its plan: a
\* list gives figures or none, a string gives none (its characters have no
\* .get), a number raises TypeError outside the try block of the loop.
AppVisualizations ==
    /\ app_pc = "insights_done"
    /\ IF ~Truthy(gemini_output)
       THEN /\ shown' = shown \cup {"info: insights unavailable"}
            /\ app_pc' = "done"
            /\ UNCHANGED <<calls, plans_given, errors>>
       ELSE IF gemini_output.t # "dict"
       THEN /\ OuterExcept("object has no attribute 'get'")
            /\ UNCHANGED <<calls, plans_given, shown>>
       ELSE IF ~PlotsTruthy(gemini_output)
       THEN /\ shown' = shown \cup {"info: no visualizations suggested"}
            /\ app_pc' = "done"
            /\ UNCHANGED <<calls, plans_given, errors>>
       ELSE /\ calls' = Append(calls, "generate_plots")
            /\ plans_given' = Append(plans_given, gemini_output.plots)
            /\ IF gemini_output.plots = "number"
               THEN /\ OuterExcept("object is not iterable")
                    /\ UNCHANGED shown
               ELSE /\ \E any_figure \in
                            (IF gemini_output.plots = "list" THEN BOOLEAN ELSE {FALSE}) :
                          shown' = shown \cup
                            {IF any_figure THEN "figures" ELSE "info: no valid plots"}
                    /\ app_pc' = "done"
                    /\ UNCHANGED errors
    /\ UNCHANGED <<uploaded_file, environment, gemini_output>>
    /\ UNCHANGED notAppVars

\* app.py:32  a file has been uploaded
InitApp ==
    /\ uploaded_file \in UploadedFiles
    /\ environment \in Environments
    /\ gemini_output = PyNone
    /\ calls = <<>>
    /\ plans_given = <<>>
    /\ shown = {}
    /\ errors = <<>>
    /\ app_pc = "uploaded"
    /\ NotAppIdle

NextApp ==
    \/ AppLoad
    \/ AppProfile
    \/ AppAnalytics
    \/ AppShowStatistics
    \/ AppInsights
    \/ AppVisualizations

SpecApp == InitApp /\ [][NextApp]_vars

(***************************************************************************)
(* Claims about one analysis pass (SpecApp)                                *)
(***************************************************************************)

Called(name) == \E k \in 1..Len(calls) : calls[k] = name

\* The insight generator was called and failed: it raised, answered with no
\* text, or answered with a text that is not a JSON object.
GeneratorFailed ==
    /\ Called("get_gemini_insights")
    /\ ~uploaded_file.has_datetime
    /\ \/ environment.response.kind \in {"raises", "no_text"}
       \/ environment.response.body.json # "object"

\* C8 as stated: when the pass is over and the insight generator had failed,
\* the failure was absorbed into an empty or default insight result (None, or
\* a dict without a usable plot plan) and reached no outer error handler,
\* generate_plots was not called (so never with a null plan) and no figure is
\* shown, and the overview and column statistics are shown.
C8_GeneratorFailureAbsorbed ==
    (app_pc = "done" /\ GeneratorFailed) =>
        /\ gemini_output.t \in {"NoneType", "dict"}
        /\ ~PlotsTruthy(gemini_output)
        /\ \A k \in 1..Len(errors) : errors[k][1] # "outer"
        /\ plans_given = <<>>
        /\ "figures" \notin shown
        /\ {"overview", "column_profiling"} \subseteq shown

\* A table was read from the upload and it is empty, has fewer than 2 columns
\* or fewer than 5 rows.
SmallTable ==
    /\ uploaded_file.ext \in SUPPORTED_EXTENSIONS
    /\ uploaded_file.readable
    /\ \/ uploaded_file.rows = 0 \/ uploaded_file.columns = 0
       \/ uploaded_file.columns < 2
       \/ uploaded_file.rows < 5

\* C9: once load_dataset has run on a small table the pass is over with one
\* descriptive error and nothing else: no profiling, analytics, insight call
\* or plot generation was run and nothing is shown; and whenever
\* profile_dataframe has been called the table has at least 2 columns and at
\* least 5 rows.
C9_SmallTableRejected ==
    /\ (SmallTable /\ app_pc # "uploaded") =>
          /\ app_pc = "done"
          /\ calls = <<"load_dataset">>
          /\ Len(errors) = 1
          /\ errors[1][2] \in {"Dataset is empty",
                               "Dataset must contain at least 2 columns",
                               "Dataset must contain at least 5 rows for meaningful EDA"}
          /\ shown = {}
          /\ plans_given = <<>>
    /\ Called("profile_dataframe") =>
          /\ uploaded_file.columns >= 2
          /\ uploaded_file.rows >= 5

\* C9 witness: a readable table of 4 rows and 2 columns was rejected for its
\* rows.
C9_Witness ==
    /\ app_pc = "done"
    /\ uploaded_file.readable /\ uploaded_file.ext = ".csv"
    /\ uploaded_file.rows = 4 /\ uploaded_file.columns = 2
    /\ errors = << <<"outer", "Dataset must contain at least 5 rows for meaningful EDA">> >>
    /\ calls = <<"load_dataset">>

====
